---- MODULE Spec2Model ----
(***************************************************************************)
(* A model of hat/sweep.py: parse_options, load_resume_state and           *)
(* train_pipeline (experiment directory versioning, wandb session,         *)
(* resume, the epoch/iteration loop and its periodic side effects).        *)
(*                                                                         *)
(* Strings are sequences of tokens ("debug", "_", "run", digits,           *)
(* ".state"): prefix tests, substring tests, concatenation and the         *)
(* formatting/parsing of numbers act on the tokens.                        *)
(***************************************************************************)
EXTENDS Integers, Sequences, FiniteSets, TLC

VARIABLES pc, yml, args, opt, error, fs, resume_state, tb_logger,
          total_epochs, total_iters, val_loaders,
          epoch, next_epoch, current_iter, train_data, events, runs

vars == <<pc, yml, args, opt, error, fs, resume_state, tb_logger,
          total_epochs, total_iters, val_loaders,
          epoch, next_epoch, current_iter, train_data, events, runs>>

\* ------------------------------------------------------------------ bounds
MaxIter == 4          \* largest train.total_iter a configuration asks for
MaxLen == 3           \* largest number of training images (enlarged)
MaxBatch == 2         \* largest batch_size_per_gpu * world_size
MaxFreq == 2          \* largest print/save/validation frequency configured
MaxVal == 2           \* largest number of val_* datasets
MaxRuns == 3          \* successive runs of train_pipeline on one filesystem
MaxState == 12        \* largest iteration number of a checkpoint file

\* ------------------------------------------------- Python values and text
\* None for an optional text (a path, a resume bundle): the empty sequence.
None == <<>>

Digit == <<"0", "1", "2", "3", "4", "5", "6", "7", "8", "9">>

\* f'{n}' for a non-negative integer: its decimal digits, most significant first.
RECURSIVE FormatInt(_)
FormatInt(n) ==
    IF n < 10 THEN <<Digit[n + 1]>>
    ELSE FormatInt(n \div 10) \o <<Digit[(n % 10) + 1]>>

DigitValue(c) == CHOOSE d \in 0..9 : Digit[d + 1] = c

IsDigits(s) == Len(s) > 0 /\ \A i \in 1..Len(s) : \E d \in 0..9 : Digit[d + 1] = s[i]

\* float(text) of a digit string: most significant digit first.
RECURSIVE ParseNumber(_)
ParseNumber(s) ==
    IF Len(s) = 0 THEN 0
    ELSE 10 * ParseNumber(SubSeq(s, 1, Len(s) - 1)) + DigitValue(s[Len(s)])

\* math.ceil(a / b) for positive b.
Ceil(a, b) == (a + b - 1) \div b

\* 'debug' in name
Contains(name, tok) == \E i \in 1..Len(name) : name[i] = tok

\* name.startswith('debug')
StartsWith(name, tok) == Len(name) >= 1 /\ name[1] = tok

\* the reading "the name is prefixed with debug"
NameIsDebugPrefix(name) == StartsWith(name, "debug")

\* the test 'debug' in opt['name'] of lines 34, 38, 230 and 291
NameIsDebug(name) == Contains(name, "debug")

\* ------------------------------------------------------ program constants
DebugValFreq == 8
DebugPrintFreq == 1
DebugSaveFreq == 8

\* ------------------------------------------------------------------ inputs
\* the configured experiment names
Names == { <<"run", "1">>, <<"run", "1", "_", "1">>,
           <<"debug", "_", "run">>, <<"run", "_", "debug">> }

Freqs == 1..MaxFreq

\* the defaults argparse gives --optim, --lr, --weight_decay, --b1, --b2
ArgsOptim == [type |-> "Adam", lr |-> "1e-5", weight_decay |-> "0.0",
              betas |-> <<"0.9", "0.99">>]

\* the optimizer section of the YAML file
YmlOptim == [type |-> "Adam", lr |-> "2e-4", weight_decay |-> "0",
             betas |-> <<"0.9", "0.99">>]

\* logger.wandb of the YAML file: the key absent, project null, project set
WandbNone == "null"

Loggers == { [print_freq |-> p, save_checkpoint_freq |-> s, use_tb_logger |-> TRUE,
              wandb |-> [project |-> w]] :
                 p \in Freqs, s \in Freqs, w \in {WandbNone, "SR"} }
           \cup
           { [print_freq |-> p, save_checkpoint_freq |-> s, use_tb_logger |-> TRUE] :
                 p \in Freqs, s \in Freqs }

\* --force_yml entries a:b=v; keys is the path, value the text right of '='
ForceEntries == { [keys |-> <<"logger", "print_freq">>, value |-> <<"2">>],
                  [keys |-> <<"train", "total_iter">>, value |-> <<"3">>] }

\* the type coercion of an override's text, as section 4.1 of the
\* specification describes it: a number is parsed from its digits
PostprocessYmlValue(v) == IF IsDigits(v) THEN ParseNumber(v) ELSE 0

\* a YAML file without a val section
YmlBase(n, lg, t, len, b, nv, rs) ==
    [name |-> n, logger |-> lg,
     train |-> [total_iter |-> t, optim_g |-> YmlOptim],
     path |-> [resume_state |-> rs],
     datasets |-> [train |-> [len |-> len, batch_size_per_gpu |-> b], n_val |-> nv]]

\* the same file with a val section
YmlVal(n, lg, t, len, b, nv, rs, vf) ==
    YmlBase(n, lg, t, len, b, nv, rs) @@ [val |-> [val_freq |-> vf, save_img |-> FALSE]]

HasVal(o) == "val" \in DOMAIN o

HasWandbProject(o) ==
    /\ "wandb" \in DOMAIN o.logger
    /\ o.logger.wandb.project # WandbNone

\* osp.join(root_path, 'experiments', name): the directory's name below
\* experiments/ stands for the path
ExperimentsRoot(name) == name

\* -------------------------------------------------------------- filesystem
\* the directories and files below experiments/; a path is the token
\* sequence of its components joined by "/", a checkpoint file holds the
\* epoch and iteration it was written at
EmptyFs == [dirs |-> {}, files |-> {}]

Join(a, b) == a \o <<"/">> \o b

Exists(f, p) == p \in f.dirs \/ \E x \in f.files : x.path = p

IsPrefix(p, q) == Len(p) <= Len(q) /\ SubSeq(q, 1, Len(p)) = p

\* ------------------------------------------------------------ parse_options
\* argparse and yaml_load, distributed settings (launcher none), lines 156-178
ParseArgs ==
    /\ pc = "parse_args"
    /\ opt' = yml @@ [dist |-> FALSE, rank |-> 0, world_size |-> 1]
    /\ pc' = "force_yml"
    /\ UNCHANGED <<yml, args, error, fs, resume_state, tb_logger, total_epochs,
                   total_iters, val_loaders, epoch, next_epoch, current_iter,
                   train_data, events, runs>>

\* lines 180-192: the first entry calls _postprocess_yml_value, a name the
\* module neither defines nor imports: NameError
ForceYml ==
    /\ pc = "force_yml"
    /\ IF args.force_yml # None
         THEN /\ error' = "NameError"
              /\ pc' = "raised"
         ELSE /\ error' = error
              /\ pc' = "debug_setting"
    /\ UNCHANGED <<yml, args, opt, fs, resume_state, tb_logger, total_epochs,
                   total_iters, val_loaders, epoch, next_epoch, current_iter,
                   train_data, events, runs>>

\* line 198-199
DebugName(o, debug) ==
    IF debug /\ ~StartsWith(o.name, "debug")
      THEN [o EXCEPT !.name = <<"debug", "_">> \o o.name]
      ELSE o

\* lines 221-227, and 264-268 of train_pipeline
WithPaths(o, root) ==
    [o EXCEPT !.path = [resume_state |-> o.path.resume_state,
                        experiments_root |-> root,
                        models |-> root \o <<"/", "models">>,
                        training_states |-> root \o <<"/", "training_states">>,
                        log |-> root,
                        visualization |-> root \o <<"/", "visualization">>]]

\* lines 229-234
DebugFreqs(o) ==
    IF NameIsDebug(o.name)
      THEN LET l == [o EXCEPT !.logger.print_freq = DebugPrintFreq,
                              !.logger.save_checkpoint_freq = DebugSaveFreq]
           IN  IF HasVal(l) THEN [l EXCEPT !.val.val_freq = DebugValFreq] ELSE l
      ELSE o

\* lines 194-241 with is_train = True
ParseRest(o, a) ==
    LET o1 == o @@ [auto_resume |-> a.auto_resume, is_train |-> TRUE]
        o2 == DebugName(o1, a.debug)
        o3 == WithPaths(o2, ExperimentsRoot(o2.name))
    IN  DebugFreqs(o3)

DebugSetting ==
    /\ pc = "debug_setting"
    /\ opt' = ParseRest(opt, args)
    /\ pc' = "exp_root"
    /\ UNCHANGED <<yml, args, error, fs, resume_state, tb_logger, total_epochs,
                   total_iters, val_loaders, epoch, next_epoch, current_iter,
                   train_data, events, runs>>

\* ------------------------------------------------- parse_options on its own
OptsYmls ==
    { YmlBase(n, lg, 3, 2, 1, 1, None) : n \in Names, lg \in Loggers }
    \cup
    { YmlVal(n, lg, 3, 2, 1, 1, None, vf) : n \in Names, lg \in Loggers, vf \in Freqs }

OptsArgs ==
    [debug : BOOLEAN, auto_resume : BOOLEAN,
     force_yml : {None} \cup { <<e>> : e \in ForceEntries }]

InitRest ==
    /\ error = "none"
    /\ fs = EmptyFs
    /\ resume_state = None
    /\ tb_logger = FALSE
    /\ total_epochs = 0
    /\ total_iters = 0
    /\ val_loaders = <<>>
    /\ epoch = -1
    /\ next_epoch = 0
    /\ current_iter = 0
    /\ train_data = 0
    /\ events = <<>>
    /\ runs = 1

InitOpts ==
    /\ pc = "parse_args"
    /\ yml \in OptsYmls
    /\ args \in OptsArgs
    /\ opt = yml
    /\ InitRest

NextOpts == ParseArgs \/ ForceYml \/ DebugSetting

SpecOpts == InitOpts /\ [][NextOpts]_vars

\* ------------------------------------------ train_pipeline: before the loop
\* the names the collision loop tries: name, name_1, name_2, ...
Suffixed(base, i) == IF i = 0 THEN base ELSE base \o <<"_">> \o FormatInt(i)

\* a first-free search that never looks at the directory
FirstFreeNoCheck(f, base, i) == Suffixed(base, i)

\* lines 259-263: while osp.exists(experiments_root): i += 1; ...
RECURSIVE FirstFree(_, _, _)
FirstFree(f, base, i) ==
    IF Exists(f, Suffixed(base, i)) THEN FirstFree(f, base, i + 1) ELSE Suffixed(base, i)

\* one external call or side effect of the run, with the source line that makes it
Event(op, line, e, n, l) == [op |-> op, line |-> line, epoch |-> e, iter |-> n, loader |-> l]

\* lines 259-268
ExpRoot ==
    /\ pc = "exp_root"
    /\ opt' = WithPaths(opt, FirstFree(fs, opt.path.experiments_root, 0))
    /\ pc' = "wandb"
    /\ UNCHANGED <<yml, args, error, fs, resume_state, tb_logger, total_epochs,
                   total_iters, val_loaders, epoch, next_epoch, current_iter,
                   train_data, events, runs>>

\* the condition of line 271
StartsWandb(o) == HasWandbProject(o)

\* lines 270-281: wandb.init and the optimizer settings taken from the CLI
Wandb ==
    /\ pc = "wandb"
    /\ IF StartsWandb(opt)
         THEN /\ events' = Append(events, Event("wandb.init", 272, 0, 0, 0))
              /\ opt' = [opt EXCEPT !.train.optim_g = ArgsOptim]
         ELSE UNCHANGED <<events, opt>>
    /\ pc' = "load_resume_state"
    /\ UNCHANGED <<yml, args, error, fs, resume_state, tb_logger, total_epochs,
                   total_iters, val_loaders, epoch, next_epoch, current_iter,
                   train_data, runs>>

\* scandir(dir, suffix='state', recursive=False, full_path=False): the names
\* of the files directly in dir that end in 'state'
Scandir(f, dir) ==
    { SubSeq(x.path, Len(dir) + 2, Len(x.path)) :
        x \in { y \in f.files :
                  /\ Len(y.path) > Len(dir) + 1
                  /\ IsPrefix(Join(dir, <<>>), y.path)
                  /\ \A i \in (Len(dir) + 2)..Len(y.path) : y.path[i] # "/"
                  /\ y.path[Len(y.path)] = ".state" } }

\* v.split('.state')[0]: the text before the first '.state'
RECURSIVE BeforeState(_)
BeforeState(v) ==
    IF Len(v) = 0 \/ v[1] = ".state" THEN <<>>
    ELSE <<v[1]>> \o BeforeState(Tail(v))

\* a selection that takes the smallest number
PickMin(S) == CHOOSE m \in S : \A x \in S : m <= x

\* max(states)
Max(S) == CHOOSE m \in S : \A x \in S : x <= m

\* lines 84-94: the path of the resume bundle, None when there is none
ResumeStatePath(f, o) ==
    IF o.auto_resume
      THEN LET state_path == Join(o.name, <<"training_states">>)
               states == Scandir(f, state_path)
           IN  IF state_path \in f.dirs /\ states # {}
                 THEN Join(state_path,
                           FormatInt(Max({ ParseNumber(BeforeState(v)) : v \in states }))
                             \o <<".state">>)
                 ELSE None
      ELSE o.path.resume_state

\* line 91: with auto-resume the path found is stored in the configuration
WithResumePath(f, o) ==
    IF o.auto_resume /\ ResumeStatePath(f, o) # None
      THEN [o EXCEPT !.path.resume_state = ResumeStatePath(f, o)]
      ELSE o

\* lines 286-287 and 82-102: torch.load of a missing file raises;
\* check_resume only adjusts the pretrained-network paths
LoadResumeState ==
    /\ pc = "load_resume_state"
    /\ LET p == ResumeStatePath(fs, opt)
       IN  /\ opt' = WithResumePath(fs, opt)
           /\ IF p = None
                THEN /\ resume_state' = None
                     /\ pc' = "make_exp_dirs"
                     /\ error' = error
                ELSE IF \E x \in fs.files : x.path = p
                       THEN /\ resume_state' =
                                  LET x == CHOOSE y \in fs.files : y.path = p
                                  IN  <<x.epoch, x.iter>>
                            /\ pc' = "make_exp_dirs"
                            /\ error' = error
                       ELSE /\ resume_state' = None
                            /\ pc' = "raised"
                            /\ error' = "FileNotFoundError"
    /\ UNCHANGED <<yml, args, fs, tb_logger, total_epochs,
                   total_iters, val_loaders, epoch, next_epoch, current_iter,
                   train_data, events, runs>>

\* mkdir_and_rename: an existing directory is moved aside with everything in it
Archive(f, root) ==
    LET moved(p) == IF IsPrefix(root, p) /\ (Len(p) = Len(root) \/ p[Len(root) + 1] = "/")
                      THEN root \o <<"_archived">> \o SubSeq(p, Len(root) + 1, Len(p))
                      ELSE p
    IN  [dirs |-> { moved(d) : d \in f.dirs },
         files |-> { [x EXCEPT !.path = moved(x.path)] : x \in f.files }]

\* make_exp_dirs(opt) of line 290: the experiment root and the directories
\* of opt['path'] below it
MakeExpDirs(f, o) ==
    LET g == IF Exists(f, o.path.experiments_root)
               THEN Archive(f, o.path.experiments_root) ELSE f
    IN  [g EXCEPT !.dirs = @ \cup { o.path.experiments_root, o.path.models,
                                    o.path.training_states, o.path.visualization }]

\* lines 288-292; the tensorboard directory of line 292 lies outside
\* experiments/ and is not part of fs
MakeDirs ==
    /\ pc = "make_exp_dirs"
    /\ fs' = IF resume_state = None THEN MakeExpDirs(fs, opt) ELSE fs
    /\ pc' = "copy_opt_file"
    /\ UNCHANGED <<yml, args, opt, error, resume_state, tb_logger, total_epochs,
                   total_iters, val_loaders, epoch, next_epoch, current_iter,
                   train_data, events, runs>>

\* lines 294-295: copyfile into a directory that does not exist raises
CopyOptFile ==
    /\ pc = "copy_opt_file"
    /\ IF opt.path.experiments_root \in fs.dirs
         THEN /\ fs' = [fs EXCEPT !.files = { x \in @ : x.path # Join(opt.path.experiments_root, <<"opt.yml">>) }
                                     \cup { [path |-> Join(opt.path.experiments_root, <<"opt.yml">>),
                                             epoch |-> 0, iter |-> 0] }]
              /\ pc' = "init_tb_loggers"
              /\ error' = error
         ELSE /\ fs' = fs
              /\ pc' = "raised"
              /\ error' = "FileNotFoundError"
    /\ UNCHANGED <<yml, args, opt, resume_state, tb_logger, total_epochs,
                   total_iters, val_loaders, epoch, next_epoch, current_iter,
                   train_data, events, runs>>

\* lines 297-304 and 32-40
InitTbLoggers ==
    /\ pc = "init_tb_loggers"
    /\ IF HasWandbProject(opt) /\ ~NameIsDebug(opt.name)
         THEN IF opt.logger.use_tb_logger
                THEN /\ events' = Append(events, Event("init_wandb_logger", 36, 0, 0, 0))
                     /\ pc' = "create_dataloaders"
                     /\ error' = error
                ELSE /\ events' = events
                     /\ pc' = "raised"
                     /\ error' = "AssertionError"
         ELSE /\ events' = events
              /\ pc' = "create_dataloaders"
              /\ error' = error
    /\ tb_logger' = (opt.logger.use_tb_logger /\ ~NameIsDebug(opt.name))
    /\ UNCHANGED <<yml, args, opt, fs, resume_state, total_epochs,
                   total_iters, val_loaders, epoch, next_epoch, current_iter,
                   train_data, runs>>

\* lines 59-60 with dataset_enlarge_ratio 1: the batches of one epoch
NumIterPerEpoch(o) ==
    Ceil(o.datasets.train.len, o.datasets.train.batch_size_per_gpu * o.world_size)

\* lines 306-308 and 43-79
CreateDataloaders ==
    /\ pc = "create_dataloaders"
    /\ total_iters' = opt.train.total_iter
    /\ total_epochs' = Ceil(opt.train.total_iter, NumIterPerEpoch(opt))
    /\ val_loaders' = [i \in 1..opt.datasets.n_val |-> i]
    /\ pc' = "build_model"
    /\ UNCHANGED <<yml, args, opt, error, fs, resume_state, tb_logger,
                   epoch, next_epoch, current_iter, train_data, events, runs>>

\* lines 310-338: the counters start from the resume bundle or from zero
BuildModel ==
    /\ pc = "build_model"
    /\ IF resume_state # None
         THEN /\ next_epoch' = resume_state[1]
              /\ current_iter' = resume_state[2]
         ELSE /\ next_epoch' = 0
              /\ current_iter' = 0
    /\ pc' = "for"
    /\ UNCHANGED <<yml, args, opt, error, fs, resume_state, tb_logger, total_epochs,
                   total_iters, val_loaders, epoch, train_data, events, runs>>

\* ------------------------------------------------ train_pipeline: the loop
\* a gate that fires one iteration late
FiresLate(n, freq) == n % freq = 1 % freq

\* current_iter % freq == 0 of lines 362, 372, 377, 387 and 393
Fires(n, freq) == n % freq = 0

\* a break that lets one more iteration through
BreakLate(n, total) == n > total + 1

\* line 349: current_iter > total_iters
Break(n, total) == n > total

\* model.save(epoch, current_iter): the training state goes to
\* <training_states>/<current_iter>.state; -1 stands for the latest and
\* writes no numbered state
SaveState(f, o, e, n) ==
    IF n = -1 THEN f
    ELSE LET p == Join(o.path.training_states, FormatInt(n) \o <<".state">>)
         IN  [f EXCEPT !.files = { x \in @ : x.path # p }
                                   \cup { [path |-> p, epoch |-> e, iter |-> n] }]

\* one call of model.validation per validation loader, from source line `line`
Validations(line, e, n, loaders) ==
    [i \in 1..Len(loaders) |-> Event("validation", line, e, n, loaders[i])]

\* lines 351-399: the calls of one iteration, in order
IterEvents(o, e, n, loaders) ==
    <<Event("optimize_parameters", 355, e, n, 0)>>
    \o (IF Fires(n, o.logger.print_freq)
          THEN <<Event("msg_logger", 367, e, n, 0)>> ELSE <<>>)
    \o (IF Fires(n, o.logger.save_checkpoint_freq)
          THEN <<Event("save", 374, e, n, 0)>> ELSE <<>>)
    \o (IF HasVal(o) /\ Fires(n, o.val.val_freq)
          THEN Validations(381, e, n, loaders) ELSE <<>>)
    \o (IF HasWandbProject(o)
           /\ (Fires(n, o.logger.print_freq)
               \/ (HasVal(o) /\ Fires(n, o.val.val_freq) /\ Len(loaders) > 0))
          THEN <<Event("wandb.log", 399, e, n, 0)>> ELSE <<>>)

\* a final validation that is skipped when the last iteration validated
FinalEventsSkip(o, n, loaders) ==
    <<Event("save", 409, -1, -1, 0)>>
    \o (IF HasVal(o) /\ ~Fires(n - 1, o.val.val_freq)
          THEN Validations(412, -1, n, loaders) ELSE <<>>)

\* lines 409-412: the latest model is saved, then the final validation
FinalEvents(o, n, loaders) ==
    <<Event("save", 409, -1, -1, 0)>>
    \o (IF HasVal(o) THEN Validations(412, -1, n, loaders) ELSE <<>>)

\* lines 340-343: the next epoch of range(start_epoch, total_epochs + 1);
\* train_data counts the batches of the epoch not yet consumed (0 is None)
EpochBoundary ==
    /\ pc = "for"
    /\ next_epoch <= total_epochs
    /\ epoch' = next_epoch
    /\ next_epoch' = next_epoch + 1
    /\ events' = events \o <<Event("set_epoch", 341, next_epoch, current_iter, 0),
                             Event("reset", 342, next_epoch, current_iter, 0)>>
    /\ train_data' = NumIterPerEpoch(opt)
    /\ pc' = "while"
    /\ UNCHANGED <<yml, args, opt, error, fs, resume_state, tb_logger, total_epochs,
                   total_iters, val_loaders, current_iter, runs>>

\* line 340: the range is exhausted
ForEnd ==
    /\ pc = "for"
    /\ next_epoch > total_epochs
    /\ pc' = "final"
    /\ UNCHANGED <<yml, args, opt, error, fs, resume_state, tb_logger, total_epochs,
                   total_iters, val_loaders, epoch, next_epoch, current_iter,
                   train_data, events, runs>>

\* lines 345-402: one pass of the while body
WhileBody ==
    /\ pc = "while"
    /\ train_data > 0
    /\ current_iter' = current_iter + 1
    /\ IF Break(current_iter + 1, total_iters)
         THEN /\ pc' = "for"
              /\ UNCHANGED <<events, fs, train_data>>
         ELSE /\ events' = events \o IterEvents(opt, epoch, current_iter + 1, val_loaders)
              /\ fs' = IF Fires(current_iter + 1, opt.logger.save_checkpoint_freq)
                         THEN SaveState(fs, opt, epoch, current_iter + 1)
                         ELSE fs
              /\ train_data' = train_data - 1
              /\ pc' = "while"
    /\ UNCHANGED <<yml, args, opt, error, resume_state, tb_logger, total_epochs,
                   total_iters, val_loaders, epoch, next_epoch, runs>>

\* line 345: the prefetcher is exhausted
WhileEnd ==
    /\ pc = "while"
    /\ train_data = 0
    /\ pc' = "for"
    /\ UNCHANGED <<yml, args, opt, error, fs, resume_state, tb_logger, total_epochs,
                   total_iters, val_loaders, epoch, next_epoch, current_iter,
                   train_data, events, runs>>

\* lines 405-414
Final ==
    /\ pc = "final"
    /\ events' = events \o FinalEvents(opt, current_iter, val_loaders)
    /\ fs' = SaveState(fs, opt, -1, -1)
    /\ tb_logger' = FALSE
    /\ pc' = "done"
    /\ UNCHANGED <<yml, args, opt, error, resume_state, total_epochs,
                   total_iters, val_loaders, epoch, next_epoch, current_iter,
                   train_data, runs>>

\* ------------------------------------------------------ the loop on its own
NoArgs == [debug |-> FALSE, auto_resume |-> FALSE, force_yml |-> None]

LoopLogger(p, s) == [print_freq |-> p, save_checkpoint_freq |-> s, use_tb_logger |-> TRUE,
                     wandb |-> [project |-> WandbNone]]

LoopYmls ==
    { YmlBase(<<"run", "1">>, LoopLogger(p, p), t, len, b, 1, None) :
        p \in Freqs, t \in 1..MaxIter, len \in 1..MaxLen, b \in 1..MaxBatch }
    \cup
    { YmlVal(<<"run", "1">>, LoopLogger(p, s), t, len, b, nv, None, vf) :
        p \in Freqs, s \in Freqs, t \in 1..MaxIter, len \in 1..MaxLen,
        b \in 1..MaxBatch, nv \in 0..MaxVal, vf \in Freqs }

\* the resume bundles a run may start from: <<epoch, iter>>
LoopResumes == {None} \cup { <<e, i>> : e \in 0..1, i \in 1..2 } \cup { <<2, MaxIter>> }

InitLoop ==
    /\ pc = "create_dataloaders"
    /\ yml \in LoopYmls
    /\ args = NoArgs
    /\ opt = ParseRest(yml @@ [dist |-> FALSE, rank |-> 0, world_size |-> 1], args)
    /\ fs = MakeExpDirs(EmptyFs, opt)
    /\ resume_state \in LoopResumes
    /\ error = "none"
    /\ tb_logger = TRUE
    /\ total_epochs = 0
    /\ total_iters = 0
    /\ val_loaders = <<>>
    /\ epoch = -1
    /\ next_epoch = 0
    /\ current_iter = 0
    /\ train_data = 0
    /\ events = <<>>
    /\ runs = 1

NextLoop ==
    CreateDataloaders \/ BuildModel \/ EpochBoundary \/ ForEnd \/ WhileBody
    \/ WhileEnd \/ Final

SpecLoop == InitLoop /\ [][NextLoop]_vars

\* ------------------------------------------------------- claims on the loop
\* the positions in the run's events of the calls made from one source line
EventsAt(line) == { i \in 1..Len(events) : events[i].line = line }

LoopExited == pc \in {"final", "done"}

\* C1: a fresh run with total_iter = T >= 1 and k batches per epoch has made
\* exactly ceil(T/k) calls of train_sampler.set_epoch and of prefetcher.reset
\* when the loop exits.
C1_EpochBoundaries ==
    (LoopExited /\ resume_state = None /\ opt.train.total_iter >= 1)
      => /\ Cardinality(EventsAt(341)) = Ceil(opt.train.total_iter, NumIterPerEpoch(opt))
         /\ Cardinality(EventsAt(342)) = Ceil(opt.train.total_iter, NumIterPerEpoch(opt))

\* C2: from every start (fresh or resumed), optimize_parameters is called at
\* most total_iter times, each time with an iteration number in 1..total_iter.
C2_OptimizeBounded ==
    /\ Cardinality(EventsAt(355)) <= opt.train.total_iter
    /\ \A i \in EventsAt(355) :
         /\ 1 <= events[i].iter
         /\ events[i].iter <= opt.train.total_iter

\* a fresh run has performed every one of its total_iter optimize steps
C2_Witness ==
    /\ pc = "done"
    /\ resume_state = None
    /\ opt.train.total_iter = MaxIter
    /\ Cardinality(EventsAt(355)) = MaxIter

\* C3: at every iteration n performed, the message logger is called iff
\* n % print_freq = 0, model.save(epoch, n) iff n % save_checkpoint_freq = 0,
\* and each validation loader is validated iff a val section is configured
\* and n % val_freq = 0; each at most once, and no such call is made for an
\* iteration number that was not performed.
C3_SideEffectsOnMultiples ==
    /\ \A i \in EventsAt(355) :
         LET n == events[i].iter
         IN  /\ (\E j \in EventsAt(367) : events[j].iter = n)
                   <=> (n % opt.logger.print_freq = 0)
             /\ (\E j \in EventsAt(374) : events[j].iter = n /\ events[j].epoch = events[i].epoch)
                   <=> (n % opt.logger.save_checkpoint_freq = 0)
             /\ \A l \in 1..Len(val_loaders) :
                  (\E j \in EventsAt(381) : events[j].iter = n /\ events[j].loader = val_loaders[l])
                    <=> (HasVal(opt) /\ n % opt.val.val_freq = 0)
    /\ \A j \in EventsAt(367) \cup EventsAt(374) \cup EventsAt(381) :
         /\ \E i \in EventsAt(355) : i < j /\ events[i].iter = events[j].iter
         /\ \A k \in EventsAt(events[j].line) :
              (events[k].iter = events[j].iter /\ events[k].loader = events[j].loader) => k = j

\* a run in which some iterations log and validate and others do not
C3_Witness ==
    /\ pc = "done"
    /\ HasVal(opt)
    /\ Len(val_loaders) = 2
    /\ \E i \in EventsAt(355) : \E j \in EventsAt(367) : events[j].iter = events[i].iter
    /\ \E i \in EventsAt(355) : \A j \in EventsAt(367) : events[j].iter # events[i].iter
    /\ \E i \in EventsAt(355) : \E j \in EventsAt(381) : events[j].iter = events[i].iter
    /\ \E i \in EventsAt(355) : \A j \in EventsAt(381) : events[j].iter # events[i].iter
    /\ \E i \in EventsAt(355) : \A j \in EventsAt(374) : events[j].iter # events[i].iter

\* C8: when the run is over, model.save(-1, -1) has been called exactly once,
\* after every optimize step, and after it the final validation has run once
\* on every validation loader if a val section is configured and not at all
\* otherwise.
C8_FinalSaveAndValidation ==
    pc = "done" =>
      /\ Cardinality(EventsAt(409)) = 1
      /\ \A s \in EventsAt(409) :
           /\ events[s].epoch = -1
           /\ events[s].iter = -1
           /\ \A i \in EventsAt(355) : i < s
           /\ \A v \in EventsAt(412) : s < v
      /\ Cardinality(EventsAt(412)) = IF HasVal(opt) THEN Len(val_loaders) ELSE 0
      /\ HasVal(opt) =>
           \A l \in 1..Len(val_loaders) :
             \E v \in EventsAt(412) : events[v].loader = val_loaders[l]

\* the last iteration saved a checkpoint and validated, and the final save
\* and validation ran all the same
C8_Witness ==
    /\ pc = "done"
    /\ HasVal(opt)
    /\ Len(val_loaders) = 2
    /\ \E j \in EventsAt(374) : events[j].iter = opt.train.total_iter
    /\ \E j \in EventsAt(381) : events[j].iter = opt.train.total_iter
    /\ Cardinality(EventsAt(409)) = 1
    /\ Cardinality(EventsAt(412)) = 2

\* ---------------------------------------------------- claims on parse_options
\* parse_options has returned its configuration
Returned == pc = "exp_root"

FreqsAreDebug(o) ==
    /\ o.logger.print_freq = 1
    /\ o.logger.save_checkpoint_freq = 8
    /\ HasVal(o) => o.val.val_freq = 8

FreqsAsConfigured(o, y) ==
    /\ o.logger.print_freq = y.logger.print_freq
    /\ o.logger.save_checkpoint_freq = y.logger.save_checkpoint_freq
    /\ HasVal(o) = HasVal(y)
    /\ HasVal(y) => o.val.val_freq = y.val.val_freq

\* C6 as stated: debug mode is --debug or a configured name prefixed with
\* 'debug'; in debug mode the three frequencies are 8, 1 and 8, and otherwise
\* they are left as configured.
C6_Original ==
    Returned =>
      IF args.debug \/ StartsWith(yml.name, "debug")
        THEN FreqsAreDebug(opt)
        ELSE FreqsAsConfigured(opt, yml)

\* C6 as amended: debug mode is --debug or a configured name that contains
\* 'debug' anywhere; in debug mode the returned configuration has
\* print_freq = 1, save_checkpoint_freq = 8 and, where there is a val
\* section, val_freq = 8; otherwise the three are left as configured.
C6_DebugFrequencies ==
    Returned =>
      IF args.debug \/ (\E i \in 1..Len(yml.name) : yml.name[i] = "debug")
        THEN FreqsAreDebug(opt)
        ELSE FreqsAsConfigured(opt, yml)

\* a name with 'debug' inside it, no --debug flag, and the configured
\* frequencies replaced
C6_Witness ==
    /\ Returned
    /\ ~args.debug
    /\ yml.name = <<"run", "_", "debug">>
    /\ HasVal(yml)
    /\ yml.val.val_freq # 8
    /\ yml.logger.print_freq # 1
    /\ opt.val.val_freq = 8
    /\ opt.logger.print_freq = 1
    /\ opt.logger.save_checkpoint_freq = 8

\* C7: once the overrides of --force_yml have been applied, parse_options
\* goes on to return a configuration in which every override a:b=v has set
\* config[a][b] to the parsed v.
C7_OverrideApplied ==
    (args.force_yml # None /\ pc \notin {"parse_args", "force_yml"})
      => /\ error = "none"
         /\ \A i \in 1..Len(args.force_yml) :
              LET e == args.force_yml[i]
              IN  opt[e.keys[1]][e.keys[2]] = PostprocessYmlValue(e.value)

\* ------------------------------------------- load_resume_state on its own
\* the checkpoint of iteration n as an earlier run of `name` left it
StateFile(name, n) ==
    [path |-> Join(Join(name, <<"training_states">>), FormatInt(n) \o <<".state">>),
     epoch |-> Ceil(n, MaxLen) - 1, iter |-> n]

\* the experiment directory of an earlier run that saved at the iterations S
FsAfterRun(name, S) ==
    LET o == WithPaths([path |-> [resume_state |-> None]], ExperimentsRoot(name))
        f == MakeExpDirs(EmptyFs, o)
    IN  [f EXCEPT !.files = { StateFile(name, n) : n \in S }]

ResumeYmls ==
    { YmlBase(<<"run", "1">>, LoopLogger(1, 1), MaxIter, 1, 1, 1, rs) :
        rs \in { None, StateFile(<<"run", "1">>, 2).path } }

InitResume ==
    /\ pc = "load_resume_state"
    /\ yml \in ResumeYmls
    /\ args \in [debug : {FALSE}, auto_resume : BOOLEAN, force_yml : {None}]
    /\ fs \in { FsAfterRun(yml.name, S) : S \in SUBSET (1..MaxState) }
    /\ opt = LET o == ParseRest(yml @@ [dist |-> FALSE, rank |-> 0, world_size |-> 1], args)
             IN  WithPaths(o, FirstFree(fs, o.path.experiments_root, 0))
    /\ resume_state = None
    /\ error = "none"
    /\ tb_logger = FALSE
    /\ total_epochs = 0
    /\ total_iters = 0
    /\ val_loaders = <<>>
    /\ epoch = -1
    /\ next_epoch = 0
    /\ current_iter = 0
    /\ train_data = 0
    /\ events = <<>>
    /\ runs = 1

NextResume == LoadResumeState

SpecResume == InitResume /\ [][NextResume]_vars

\* the checkpoint files in the training-states directory of the configured name
StateFilesOf(name) ==
    { x \in fs.files :
        /\ Len(x.path) > Len(name) + 3
        /\ SubSeq(x.path, 1, Len(name) + 3) = name \o <<"/", "training_states", "/">>
        /\ x.path[Len(x.path)] = ".state" }

\* C4: with auto-resume and at least one <n>.state file in the training-states
\* directory, load_resume_state loads a file of that directory, and it is the
\* one with the largest n.
C4_LargestState ==
    (pc # "load_resume_state" /\ args.auto_resume /\ StateFilesOf(opt.name) # {})
      => /\ error = "none"
         /\ \E x \in StateFilesOf(opt.name) :
              /\ x.path = opt.path.resume_state
              /\ resume_state = <<x.epoch, x.iter>>
              /\ \A y \in StateFilesOf(opt.name) : y.iter <= x.iter

\* 10.state is loaded from a directory that also holds 9.state and 2.state
C4_Witness ==
    /\ pc = "make_exp_dirs"
    /\ args.auto_resume
    /\ resume_state # None
    /\ resume_state[2] = 10
    /\ \E y \in StateFilesOf(opt.name) : y.iter = 9
    /\ \E y \in StateFilesOf(opt.name) : y.iter = 2
    /\ opt.path.resume_state =
         <<"run", "1", "/", "training_states", "/", "1", "0", ".state">>

\* ------------------------------------- successive runs on one filesystem
RunIter == 2          \* train.total_iter of the runs that share a filesystem

RunNames == { <<"run", "1">>, <<"run", "1", "_", "1">> }

RunLogger(w) == [print_freq |-> 1, save_checkpoint_freq |-> 1, use_tb_logger |-> TRUE,
                 wandb |-> [project |-> w]]

RunYmls ==
    { YmlVal(n, RunLogger(w), RunIter, 2, 1, 1, None, 2) :
        n \in RunNames, w \in {WandbNone, "SR"} }

RunArgs == [debug : BOOLEAN, auto_resume : BOOLEAN, force_yml : {None}]

InitRun ==
    /\ pc = "parse_args"
    /\ yml \in RunYmls
    /\ args \in RunArgs
    /\ opt = yml
    /\ InitRest

\* the process has ended (normally or by an exception) and the script is
\* started again; the filesystem is what the earlier runs left
NewRun ==
    /\ pc \in {"done", "raised"}
    /\ runs < MaxRuns
    /\ runs' = runs + 1
    /\ yml' \in RunYmls
    /\ args' \in RunArgs
    /\ opt' = yml'
    /\ pc' = "parse_args"
    /\ error' = "none"
    /\ resume_state' = None
    /\ tb_logger' = FALSE
    /\ total_epochs' = 0
    /\ total_iters' = 0
    /\ val_loaders' = <<>>
    /\ epoch' = -1
    /\ next_epoch' = 0
    /\ current_iter' = 0
    /\ train_data' = 0
    /\ events' = <<>>
    /\ UNCHANGED fs

NextRun ==
    ParseArgs \/ ForceYml \/ DebugSetting \/ ExpRoot \/ Wandb \/ LoadResumeState
    \/ MakeDirs \/ CopyOptFile \/ InitTbLoggers \/ CreateDataloaders \/ BuildModel
    \/ EpochBoundary \/ ForEnd \/ WhileBody \/ WhileEnd \/ Final \/ NewRun

SpecRun == InitRun /\ [][NextRun]_vars

DebugRun == args.debug \/ Contains(yml.name, "debug")

\* C9: a tracking session is started only if a wandb project is configured
\* and the run is not a debug run; in a debug run or without a project no
\* session is started and the optimizer settings stay those of the YAML file.
C9_WandbOnlyOutsideDebug ==
    /\ (EventsAt(272) \cup EventsAt(36) # {}) => (HasWandbProject(yml) /\ ~DebugRun)
    /\ (DebugRun \/ ~HasWandbProject(yml)) =>
         /\ EventsAt(272) \cup EventsAt(36) = {}
         /\ opt.train.optim_g = yml.train.optim_g

\* C10: a run that resumed from a checkpoint found by auto-resume uses an
\* experiment directory that exists and is the one the checkpoint lies in.
C10_ResumeKeepsDirectory ==
    (args.auto_resume /\ resume_state # None)
      => /\ opt.path.experiments_root \in fs.dirs
         /\ opt.path.experiments_root = ExperimentsRoot(opt.name)
         /\ IsPrefix(Join(opt.path.experiments_root, <<"training_states">>),
                     opt.path.resume_state)

\* C11: in a fresh run the iteration counter never exceeds total_iter while
\* the loop runs or after it, and the iteration number handed to the final
\* validation is total_iter, the number of the last optimize step.
C11_CounterWithinTotal ==
    (resume_state = None /\ pc \in {"for", "while", "final", "done"})
      => /\ current_iter <= opt.train.total_iter
         /\ pc = "done" =>
              \A v \in EventsAt(412) : events[v].iter = opt.train.total_iter

====
